---- MODULE Spec2Model ----
(***************************************************************************)
(* FinanceManager.jsx: the multi-month Store held in React state, its      *)
(* persistence under one localStorage key, the file import, and the        *)
(* cumulative-sum over-budget attribution computed on every render.        *)
(*                                                                         *)
(* One action is one browser event handled to completion: the handler,     *)
(* the state updater it queues, the re-render and the effects that run     *)
(* after the commit.                                                       *)
(***************************************************************************)
EXTENDS Integers, Sequences, FiniteSets, TLC

\* ------------------------------------------------------------------ bounds
MaxItems == 2     \* items one month may hold in the model
MaxIds == 1       \* ids crypto.randomUUID() may hand out at one time
MaxLen == 3       \* SpecAttr: longest item sequence
MaxPrice == 3     \* SpecAttr: largest price
MaxBudget == 6    \* SpecAttr: largest maxBudget

\* -------------------------------------------------------------- JS numbers
\* A JS number is an integer or one of the two non-finite values the code can
\* produce; Null is JSON's null, which JSON.stringify writes for both of them.
Infinity == 1000
NaN == -1000
Null == -2000

isNaN(n) == n = NaN

IsFinite(n) == n \notin {Infinity, NaN, Null}

\* Number(raw) on the raw texts the inputs are drawn from.
Number(raw) ==
  CASE raw = "" -> 0
    [] raw = "abc" -> NaN
    [] raw = "-5" -> -5
    [] raw = "0" -> 0
    [] raw = "2" -> 2
    [] raw = "1e999" -> Infinity

RawNumbers == {"", "abc", "-5", "0", "2", "1e999"}

\* The raw values the budget field is set to.
RawBudgets == {"", "abc", "-5", "2"}

\* The raw prices an edit is confirmed with.
EditPrices == {"abc", "2", "1e999"}

\* Number(x) || 0 on a stored value: null, undefined and NaN give 0.
NumberOr0(x) == IF x \in {NaN, Null} THEN 0 ELSE x

\* a + b in IEEE arithmetic on the values above.
JsAdd(a, b) == IF a = Infinity \/ b = Infinity THEN Infinity ELSE a + b

\* ------------------------------------------------------------------ strings
\* A text the user types is its sequence of characters.
RECURSIVE TrimStart(_)
TrimStart(s) == IF s # <<>> /\ Head(s) = " " THEN TrimStart(Tail(s)) ELSE s

RECURSIVE TrimEnd(_)
TrimEnd(s) ==
  IF s # <<>> /\ s[Len(s)] = " " THEN TrimEnd(SubSeq(s, 1, Len(s) - 1)) ELSE s

Trim(s) == TrimEnd(TrimStart(s))

RawNames == {<<>>, <<" ">>, <<" ", "a", " ">>}

\* The raw names an edit is confirmed with.
EditNames == {<<" ">>, <<" ", "a", " ">>}

Digits == {"0", "1", "2", "3", "4", "5", "6", "7", "8", "9"}

\* /^\d{4}-\d{2}$/.test(s)
MonthPattern(s) ==
  /\ Len(s) = 7
  /\ \A i \in {1, 2, 3, 4, 6, 7} : s[i] \in Digits
  /\ s[5] = "-"

\* A month text the user submits: the string and its characters.
MonthText(chars, key) == [key |-> key, chars |-> chars]

Nov == "2026-11"
Dec == "2026-12"
MonthKeys == {Nov, Dec}
MonthInputs ==
  {MonthText(<<"2", "0", "2", "6", "-", "1", "1">>, Nov),
   MonthText(<<"2", "0", "2", "6", "-", "1", "2">>, Dec),
   MonthText(<<"2", "0", "2", "6", "-", "1">>, "2026-1")}

\* monthKey(): the month the clock shows.
monthKey == Nov

\* ------------------------------------------------------------------ values
STORAGE_KEY == "finance_manager_v1"

Undefined == [t |-> "undefined"]
Ref(a) == [t |-> "ref", a |-> a]

EmptyMonth == [t |-> "md", maxBudget |-> 0, items |-> <<>>]
\* An object with no month key.
NoMonths == [k \in {} |-> Undefined]

EmptyStore == [t |-> "obj", months |-> [t |-> "map", m |-> NoMonths]]

\* !v
Falsy(v) == v.t = "undefined"

\* typeof v === "object" (v not null)
IsObject(v) == v.t \in {"obj", "map", "md"}

\* The month keys of a Store value (none when months is not a mapping).
Months(s) == IF s.months.t = "map" THEN DOMAIN s.months.m ELSE {}

\* store.months[k]
MonthOf(s, k) == IF k \in Months(s) THEN s.months.m[k] ELSE Undefined

\* ------------------------------------------------------------------- JSON
\* A text is unparseable, or the serialization of a JSON value.
JsonNumber(n) == IF IsFinite(n) THEN n ELSE Null

JsonItem(it) == [it EXCEPT !.price = JsonNumber(@)]

JsonMonth(d) ==
  IF d.t = "md"
  THEN [d EXCEPT !.maxBudget = JsonNumber(@),
                 !.items = [i \in DOMAIN d.items |-> JsonItem(d.items[i])]]
  ELSE d

JsonMonths(mv) ==
  IF mv.t = "map"
  THEN [mv EXCEPT !.m = [k \in DOMAIN mv.m |-> JsonMonth(mv.m[k])]]
  ELSE mv

\* JSON.stringify(store)
JSONstringify(s) ==
  [syntax |-> "json", value |-> [s EXCEPT !.months = JsonMonths(@)]]

\* JSON.parse(text): [threw, value]
JSONparse(text) ==
  IF text.syntax = "json"
  THEN [threw |-> FALSE, value |-> text.value]
  ELSE [threw |-> TRUE, value |-> Undefined]

ImportedItem == [id |-> 0, name |-> <<"a">>, price |-> 2, createdAt |-> 0]

Text(v) == [syntax |-> "json", value |-> v]

Absent == [syntax |-> "absent"]
Garbage == [syntax |-> "bad"]
TNumber == Text([t |-> "num"])
TNoMonths == Text([t |-> "obj", months |-> Undefined])
TStrMonths == Text([t |-> "obj", months |-> [t |-> "str"]])
TEmpty == Text(EmptyStore)
TValid ==
  Text([t |-> "obj",
        months |-> [t |-> "map",
                    m |-> (Nov :> [t |-> "md", maxBudget |-> 2,
                                   items |-> <<ImportedItem>>])]])
TBadMonth ==
  Text([t |-> "obj", months |-> [t |-> "map", m |-> (Nov :> [t |-> "num"])]])

\* What the file the user picks may hold.
FileTexts ==
  {Garbage, TNumber, TNoMonths, TStrMonths, TEmpty, TValid, TBadMonth}

\* What localStorage may hold when the page opens.
StoredTexts == {Absent, Garbage, TNumber, TStrMonths, TValid, TBadMonth}

\* ---------------------------------------------------------------- storage
loadData(ls) ==
  LET raw == ls[STORAGE_KEY]
      p == JSONparse(raw)
  IN IF raw.syntax = "absent" THEN EmptyStore
     ELSE IF p.threw THEN EmptyStore
     ELSE IF Falsy(p.value) \/ ~IsObject(p.value) THEN EmptyStore
     ELSE IF Falsy(p.value.months) \/ ~IsObject(p.value.months) THEN EmptyStore
     ELSE p.value

saveData(ls, s) == [ls EXCEPT ![STORAGE_KEY] = JSONstringify(s)]

\* ------------------------------------------------------------ object graph
\* A Store value in memory is a graph of objects: the store object holds a
\* reference to its months object (or a primitive), the months object maps
\* month keys to references to MonthData objects (or primitives).  An
\* updater runs on the graph of the committed store, laid out by Heap and
\* Root with its months object at "M0" and the MonthData object of month k at
\* <<"old", k>>; the months object an updater or JSON.parse allocates goes to
\* "M1", the MonthData objects to NewMd and <<"parsed", k>>.  Item arrays
\* and items are never written to after creation and stay values.
NewMd == <<"new", "">>

RootAt(s, mo) ==
  [t |-> "obj", months |-> IF s.months.t = "map" THEN Ref(mo) ELSE s.months]

HeapAt(s, mo, tag) ==
  [mo |-> IF s.months.t = "map"
          THEN mo :> [k \in Months(s) |->
                        IF s.months.m[k].t = "md"
                        THEN Ref(<<tag, k>>)
                        ELSE s.months.m[k]]
          ELSE [a \in {} |-> NoMonths],
   md |-> [a \in {<<tag, k>> : k \in {j \in Months(s) : s.months.m[j].t = "md"}}
             |-> s.months.m[a[2]]]]

Root(s) == RootAt(s, "M0")

Heap(s) == HeapAt(s, "M0", "old")

\* The graph with the objects of both graphs.
Both(h1, h2) == [mo |-> h1.mo @@ h2.mo, md |-> h1.md @@ h2.md]

DerefMonth(h, d) == IF d.t = "ref" THEN h.md[d.a] ELSE d

\* The content of the store object `root` in graph h.
Deref(h, root) ==
  [t |-> "obj",
   months |-> IF root.months.t = "ref"
              THEN [t |-> "map",
                    m |-> [k \in DOMAIN h.mo[root.months.a] |->
                             DerefMonth(h, h.mo[root.months.a][k])]]
              ELSE root.months]

\* root.months[k]: undefined for a key the months object lacks, and for any
\* month key of a string.
Lookup(h, root, k) ==
  IF root.months.t = "ref" /\ k \in DOMAIN h.mo[root.months.a]
  THEN h.mo[root.months.a][k]
  ELSE Undefined

\* An updater throws a TypeError, or returns the next store object.
Threw == [threw |-> TRUE, saved |-> FALSE]
Return(next, h, saved) ==
  [threw |-> FALSE, next |-> next, heap |-> h, saved |-> saved]

\* next.months[am] = { maxBudget: 0, items: [] } with next = { ...prev }: the
\* months object next shares with prev is written to.  In a module (strict
\* mode) the assignment to a property of a string throws.
AssignEmptyMonth(h, prev, am, saved) ==
  IF prev.months.t # "ref"
  THEN Threw
  ELSE Return(prev,
              [mo |-> [h.mo EXCEPT ![prev.months.a] = (am :> Ref(NewMd)) @@ @],
               md |-> (NewMd :> EmptyMonth) @@ h.md],
              saved)

\* The updater of the ensure-month effect; it calls saveData(next) itself
\* when it creates the month.
ensureMonth(h, prev, am) ==
  IF ~Falsy(Lookup(h, prev, am))
  THEN Return(prev, h, FALSE)
  ELSE AssignEmptyMonth(h, prev, am, TRUE)

\* { ...prev.months }: the own properties of the months object; those of a
\* string are its characters, no month key among them.
SpreadMonths(h, prev) ==
  IF prev.months.t = "ref" THEN h.mo[prev.months.a] ELSE NoMonths

\* current = next.months[am] after next = { ...prev, months: { ...prev.months } }
Current(h, prev, am) ==
  IF am \in DOMAIN SpreadMonths(h, prev)
  THEN SpreadMonths(h, prev)[am]
  ELSE Undefined

\* current.items, where current is a MonthData object.
CurrentItems(h, prev, am) ==
  IF Current(h, prev, am).t = "ref"
  THEN h.md[Current(h, prev, am).a].items
  ELSE <<>>

\* The updater shared by addItem, removeItem and updateItem:
\* next = { ...prev, months: { ...prev.months } }, then next.months[am] =
\* { ...current, items }, items made from current.items.  Reading .items of
\* undefined throws, and so does spreading or calling a method of the
\* undefined .items of a number.
ReplaceItems(h, prev, am, items) ==
  IF Current(h, prev, am).t # "ref"
  THEN Threw
  ELSE Return([t |-> "obj", months |-> Ref("M1")],
              [mo |-> ("M1" :> ((am :> Ref(NewMd)) @@ SpreadMonths(h, prev)))
                        @@ h.mo,
               md |-> (NewMd :> [h.md[Current(h, prev, am).a]
                                   EXCEPT !.items = items]) @@ h.md],
              FALSE)

addItemUpdater(h, prev, am, item) ==
  ReplaceItems(h, prev, am, Append(CurrentItems(h, prev, am), item))

removeItemUpdater(h, prev, am, id) ==
  ReplaceItems(h, prev, am,
               SelectSeq(CurrentItems(h, prev, am), LAMBDA it : it.id # id))

updateItemUpdater(h, prev, am, id, fields) ==
  ReplaceItems(h, prev, am,
               [i \in DOMAIN CurrentItems(h, prev, am) |->
                  IF CurrentItems(h, prev, am)[i].id = id
                  THEN [CurrentItems(h, prev, am)[i]
                          EXCEPT !.name = fields.name, !.price = fields.price]
                  ELSE CurrentItems(h, prev, am)[i]])

\* next = { ...prev }; m = next.months[am]; m.maxBudget = isNaN(n) ? 0 : n.
\* m is the MonthData object prev holds; with m undefined or a number the
\* assignment throws.
updateBudgetUpdater(h, prev, am, n) ==
  LET m == Lookup(h, prev, am)
  IN IF m.t # "ref"
     THEN Threw
     ELSE Return(prev,
                 [h EXCEPT !.md[m.a].maxBudget = IF isNaN(n) THEN 0 ELSE n],
                 FALSE)

resetMonthUpdater(h, prev, am) == AssignEmptyMonth(h, prev, am, FALSE)

\* ------------------------------------------------------------------ render
RECURSIVE Running(_, _)
\* `running` after the first i items: s + (Number(it.price) || 0) from 0.
Running(items, i) ==
  IF i = 0 THEN 0
  ELSE JsAdd(Running(items, i - 1), NumberOr0(items[i].price))

\* OverBudgetFlag with the straddle test made inclusive (running >= maxBudget).
OverBudgetFlagInclusive(maxBudget, start, running) ==
  (maxBudget > 0 /\ start < maxBudget /\ running >= maxBudget)
    \/ start >= maxBudget

OverBudgetFlag(maxBudget, start, running) ==
  (maxBudget > 0 /\ start < maxBudget /\ running > maxBudget)
    \/ start >= maxBudget

overBudgetMap(items, maxBudget) ==
  [i \in 1..Len(items) |->
     OverBudgetFlag(maxBudget, Running(items, i - 1), Running(items, i))]

exceeding(total, maxBudget) == total > maxBudget /\ maxBudget > 0

Pending ==
  [status |-> "pending", maxBudget |-> 0, total |-> 0, exceeding |-> FALSE,
   overBudgetMap |-> <<>>]

\* The body of the component up to the derived values.  data.items of a
\* month value that is no MonthData is undefined, and items.reduce throws.
Render(s, am) ==
  LET data == IF Falsy(MonthOf(s, am)) THEN EmptyMonth ELSE MonthOf(s, am)
  IN IF data.t # "md"
     THEN [Pending EXCEPT !.status = "crashed"]
     ELSE LET maxBudget == NumberOr0(data.maxBudget)
              total == Running(data.items, Len(data.items))
          IN [status |-> "ok", maxBudget |-> maxBudget, total |-> total,
              exceeding |-> exceeding(total, maxBudget),
              overBudgetMap |-> overBudgetMap(data.items, maxBudget)]

\* ------------------------------------------------------------------- state
VARIABLES
  store,         \* the committed React state `store`
  activeMonth,   \* the committed React state `activeMonth`
  localStorage,  \* the browser's storage: STORAGE_KEY -> text
  view,          \* what the last render computed
  faultIn,       \* "none", or where an uncaught TypeError unmounted the app
  reader,        \* the FileReader: "idle", "reading", "done" or "error"
  fileValue,     \* fileRef.current.value: "" or the chosen file
  alertMsg,      \* what importAll last alerted: "none", "ok" or "fail"
  mutatedBy      \* history: "none", or the last updater, when the store
                 \* object it was given as `prev` no longer had its content
                 \* when it returned

vars ==
  <<store, activeMonth, localStorage, view, faultIn, reader, fileValue,
    alertMsg, mutatedBy>>

importVars == <<reader, fileValue, alertMsg>>

Ids == 0..MaxIds

ItemsOf(d) == IF d.t = "md" THEN {d.items[i] : i \in DOMAIN d.items} ELSE {}

UsedIds(s) == {it.id : it \in UNION {ItemsOf(s.months.m[k]) : k \in Months(s)}}

\* crypto.randomUUID(): an id no item of the store has.
FreeIds(s) == (1..MaxIds) \ UsedIds(s)
randomUUID(s) == CHOOSE i \in FreeIds(s) : \A j \in FreeIds(s) : i <= j

\* new Date().toISOString() at a creation: one stamp per created item.
toISOString(s) == randomUUID(s)

\* The active month has room for one more item (a bound of the model).
HasRoom(s, am) ==
  MonthOf(s, am).t = "md" => Len(MonthOf(s, am).items) < MaxItems

\* setStore(updater) handled to the end: the updater runs on the committed
\* store; a throw unmounts the app.  Otherwise the component renders with the
\* next store (a throw in the render unmounts the app before any effect
\* runs), and the persist effect, whose dependency [store] changed, saves it.
Commit(op, res, am) ==
  IF res.threw
  THEN /\ faultIn' = op
       /\ UNCHANGED <<store, localStorage, view, mutatedBy>>
  ELSE LET next == Deref(res.heap, res.next)
           prior == Deref(res.heap, Root(store))
           saved == IF res.saved THEN saveData(localStorage, next)
                    ELSE localStorage
           v == Render(next, am)
       IN /\ store' = next
          /\ mutatedBy' = IF prior = store THEN "none" ELSE op
          /\ view' = v
          /\ faultIn' = IF v.status = "crashed" THEN "render" ELSE "none"
          /\ localStorage' =
               IF v.status = "crashed" THEN saved ELSE saveData(saved, next)

\* ----------------------------------------------------------------- actions
addItem(newName, newPrice) ==
  LET price == Number(newPrice)
      item == [id |-> randomUUID(store), name |-> Trim(newName),
               price |-> price, createdAt |-> toISOString(store)]
  IN IF Trim(newName) = <<>> THEN UNCHANGED vars
     ELSE IF isNaN(price) \/ price <= 0 THEN UNCHANGED vars
     ELSE /\ Commit("addItem",
                    addItemUpdater(Heap(store), Root(store), activeMonth, item),
                    activeMonth)
          /\ UNCHANGED <<activeMonth, importVars>>

AddItem ==
  /\ faultIn = "none"
  /\ FreeIds(store) # {}
  /\ HasRoom(store, activeMonth)
  /\ \E newName \in RawNames, newPrice \in RawNumbers :
       addItem(newName, newPrice)

removeItem(id, confirmed) ==
  IF ~confirmed THEN UNCHANGED vars
  ELSE /\ Commit("removeItem",
                 removeItemUpdater(Heap(store), Root(store), activeMonth, id),
                 activeMonth)
       /\ UNCHANGED <<activeMonth, importVars>>

RemoveItem ==
  /\ faultIn = "none"
  /\ \E id \in Ids, confirmed \in BOOLEAN : removeItem(id, confirmed)

updateItem(id, fields) ==
  /\ Commit("updateItem",
            updateItemUpdater(Heap(store), Root(store), activeMonth, id,
                              fields),
            activeMonth)
  /\ UNCHANGED <<activeMonth, importVars>>

NoEdit == -1

\* confirmEdit(): validates the edit fields, then updateItem(editingId, ...).
confirmEdit(editingId, editName, editPrice) ==
  LET nPrice == Number(editPrice)
  IN IF editingId = NoEdit THEN UNCHANGED vars
     ELSE IF Trim(editName) = <<>> \/ isNaN(nPrice) \/ nPrice <= 0
     THEN UNCHANGED vars
     ELSE updateItem(editingId, [name |-> Trim(editName), price |-> nPrice])

ConfirmEdit ==
  /\ faultIn = "none"
  /\ \E editingId \in Ids \cup {NoEdit}, editName \in EditNames,
        editPrice \in EditPrices :
       confirmEdit(editingId, editName, editPrice)

updateBudget(val) ==
  /\ Commit("updateBudget",
            updateBudgetUpdater(Heap(store), Root(store), activeMonth,
                                Number(val)),
            activeMonth)
  /\ UNCHANGED <<activeMonth, importVars>>

UpdateBudget ==
  /\ faultIn = "none"
  /\ \E val \in RawBudgets : updateBudget(val)

resetMonth(confirmed) ==
  IF ~confirmed THEN UNCHANGED vars
  ELSE /\ Commit("resetMonth",
                 resetMonthUpdater(Heap(store), Root(store), activeMonth),
                 activeMonth)
       /\ UNCHANGED <<activeMonth, importVars>>

ResetMonth ==
  /\ faultIn = "none"
  /\ \E confirmed \in BOOLEAN : resetMonth(confirmed)

\* setActiveMonth(m): the same month changes nothing.  A new month renders
\* first, with the store as it is; then the ensure-month effect, whose
\* dependency [activeMonth] changed, queues its updater.
setActiveMonth(m) ==
  IF m = activeMonth THEN UNCHANGED vars
  ELSE IF Render(store, m).status = "crashed"
  THEN /\ activeMonth' = m
       /\ view' = Render(store, m)
       /\ faultIn' = "render"
       /\ UNCHANGED <<store, localStorage, mutatedBy, importVars>>
  ELSE /\ activeMonth' = m
       /\ Commit("ensureMonth", ensureMonth(Heap(store), Root(store), m), m)
       /\ UNCHANGED importVars

applyMonthChange(monthInput) ==
  IF ~MonthPattern(monthInput.chars) THEN UNCHANGED vars
  ELSE setActiveMonth(monthInput.key)

ApplyMonthChange ==
  /\ faultIn = "none"
  /\ \E monthInput \in MonthInputs : applyMonthChange(monthInput)

OpenThisMonth ==
  /\ faultIn = "none"
  /\ setActiveMonth(monthKey)

\* importAll(evt): with a file chosen, a FileReader starts reading it.  The
\* model follows one read at a time.
ImportStart ==
  /\ faultIn = "none"
  /\ reader # "reading"
  /\ \E chosen \in BOOLEAN :
       IF ~chosen THEN UNCHANGED vars
       ELSE /\ reader' = "reading"
            /\ fileValue' = "backup.json"
            /\ alertMsg' = "none"
            /\ UNCHANGED <<store, activeMonth, localStorage, view, faultIn,
                           mutatedBy>>

\* onload keeping the months of the current store that the document lacks.
onloadMerging(text, prev) ==
  LET p == JSONparse(text)
  IN IF p.threw THEN [ok |-> FALSE, store |-> prev]
     ELSE IF Falsy(p.value) \/ ~IsObject(p.value) \/ Falsy(p.value.months)
     THEN [ok |-> FALSE, store |-> prev]
     ELSE [ok |-> TRUE,
           store |-> IF p.value.months.t = "map" /\ prev.months.t = "map"
                     THEN [p.value EXCEPT !.months.m = @ @@ prev.months.m]
                     ELSE p.value]

\* The try block of reader.onload on the text read: what setStore is given.
onload(text, prev) ==
  LET p == JSONparse(text)
  IN IF p.threw THEN [ok |-> FALSE, store |-> prev]
     ELSE IF Falsy(p.value) \/ ~IsObject(p.value) \/ Falsy(p.value.months)
     THEN [ok |-> FALSE, store |-> prev]
     ELSE [ok |-> TRUE, store |-> p.value]

\* reader.onload: try / catch / finally, then the render setStore asked for.
ReaderLoad(text) ==
  /\ faultIn = "none"
  /\ reader = "reading"
  /\ reader' = "done"
  /\ fileValue' = ""
  /\ UNCHANGED activeMonth
  /\ LET r == onload(text, store)
     IN IF r.ok
        THEN /\ alertMsg' = "ok"
             /\ Commit("import",
                       Return(RootAt(r.store, "M1"),
                              Both(Heap(store),
                                   HeapAt(r.store, "M1", "parsed")),
                              FALSE),
                       activeMonth)
        ELSE /\ alertMsg' = "fail"
             /\ UNCHANGED <<store, localStorage, view, faultIn, mutatedBy>>

ReaderLoads == \E text \in FileTexts : ReaderLoad(text)

\* The read fails: the reader has no onerror handler, nothing runs.
ReaderError ==
  /\ faultIn = "none"
  /\ reader = "reading"
  /\ reader' = "error"
  /\ UNCHANGED <<store, activeMonth, localStorage, view, faultIn, fileValue,
                 alertMsg, mutatedBy>>

\* The page opens: useState(loadData()), useState(monthKey()), the first
\* render, then the two effects: the persist effect saves the loaded store,
\* the ensure-month effect queues its updater, handled as in Commit.
Mount(raw) ==
  LET ls == STORAGE_KEY :> raw
      s0 == loadData(ls)
      res == ensureMonth(Heap(s0), Root(s0), monthKey)
      next == Deref(res.heap, res.next)
      prior == Deref(res.heap, Root(s0))
  IN IF Render(s0, monthKey).status = "crashed"
     THEN [store |-> s0, localStorage |-> ls, view |-> Render(s0, monthKey),
           faultIn |-> "render", mutatedBy |-> "none"]
     ELSE IF res.threw
     THEN [store |-> s0, localStorage |-> saveData(ls, s0),
           view |-> Render(s0, monthKey), faultIn |-> "ensureMonth",
           mutatedBy |-> "none"]
     ELSE [store |-> next, localStorage |-> saveData(ls, next),
           view |-> Render(next, monthKey), faultIn |-> "none",
           mutatedBy |-> IF prior = s0 THEN "none" ELSE "ensureMonth"]

Init ==
  \E raw \in StoredTexts :
    /\ store = Mount(raw).store
    /\ localStorage = Mount(raw).localStorage
    /\ view = Mount(raw).view
    /\ faultIn = Mount(raw).faultIn
    /\ mutatedBy = Mount(raw).mutatedBy
    /\ activeMonth = monthKey
    /\ reader = "idle"
    /\ fileValue = ""
    /\ alertMsg = "none"

Next ==
  \/ AddItem
  \/ RemoveItem
  \/ ConfirmEdit
  \/ UpdateBudget
  \/ ResetMonth
  \/ ApplyMonthChange
  \/ OpenThisMonth
  \/ ImportStart
  \/ ReaderLoads
  \/ ReaderError

Spec == Init /\ [][Next]_vars

\* ------------------------------------------------- the attribution alone
\* SpecAttr: a store with one month, any item sequence up to MaxLen with
\* prices up to MaxPrice, any maxBudget from -1 to MaxBudget; the one action
\* renders it.
PriceLists == UNION {[1..n -> 1..MaxPrice] : n \in 0..MaxLen}

ItemsPriced(prices) ==
  [i \in DOMAIN prices |->
     [id |-> i, name |-> <<"a">>, price |-> prices[i], createdAt |-> i]]

OneMonth(prices, budget) ==
  [t |-> "obj",
   months |-> [t |-> "map",
               m |-> (monthKey :> [t |-> "md", maxBudget |-> budget,
                                   items |-> ItemsPriced(prices)])]]

InitAttr ==
  \E prices \in PriceLists, budget \in -1..MaxBudget :
    /\ store = OneMonth(prices, budget)
    /\ localStorage = saveData(STORAGE_KEY :> Absent, OneMonth(prices, budget))
    /\ activeMonth = monthKey
    /\ view = Pending
    /\ faultIn = "none"
    /\ reader = "idle"
    /\ fileValue = ""
    /\ alertMsg = "none"
    /\ mutatedBy = "none"

RenderAttr ==
  /\ view.status = "pending"
  /\ view' = Render(store, activeMonth)
  /\ UNCHANGED <<store, activeMonth, localStorage, faultIn, reader, fileValue,
                 alertMsg, mutatedBy>>

NextAttr == RenderAttr

SpecAttr == InitAttr /\ [][NextAttr]_vars

\* ------------------------------------------------------------------ claims
\* The active month's data, when the store has a MonthData for it.
HasActive == MonthOf(store, activeMonth).t = "md"
ActiveItems == MonthOf(store, activeMonth).items
ActiveBudget == MonthOf(store, activeMonth).maxBudget

RECURSIVE PriceSum(_, _)
\* The sum of the first i prices.
PriceSum(items, i) ==
  IF i = 0 THEN 0 ELSE PriceSum(items, i - 1) + items[i].price

\* C1: when the active month's maxBudget is 0 or negative, the over-budget
\* flag of every item is false, whatever the prices.
NoCeilingNoFlags ==
  (view.status = "ok" /\ HasActive /\ ActiveBudget <= 0)
    => \A i \in DOMAIN view.overBudgetMap : ~view.overBudgetMap[i]

\* C2: no operation changes the content of a Store value that existed before
\* it: the store object an updater was given still has its content.
CopyOnWrite == mutatedBy = "none"

\* C3: an import of a text that does not parse, parses to a non-object or
\* has no months field leaves the Store and the persisted document as they
\* were; an import that succeeds makes the Store exactly the parsed document,
\* so every month of the old Store the document lacks is gone.
ImportAtomic ==
  [][\A text \in FileTexts :
       ReaderLoad(text) =>
         /\ (text.syntax # "json" \/ text.value.t # "obj"
               \/ text.value.months.t = "undefined")
              => (alertMsg' = "fail" /\ store' = store
                    /\ localStorage' = localStorage)
         /\ alertMsg' = "fail"
              => (store' = store /\ localStorage' = localStorage)
         /\ alertMsg' = "ok"
              => /\ store' = text.value
                 /\ \A k \in Months(store) \ Months(text.value) :
                      k \notin Months(store')]_vars

\* C3 witness: an import succeeded and the active month, which the old Store
\* had, is gone.
ImportDroppedMonth ==
  /\ reader = "done"
  /\ alertMsg = "ok"
  /\ faultIn = "none"
  /\ store.months.t = "map"
  /\ activeMonth \notin Months(store)

\* C8: the Store always has a months mapping whose every value is a
\* MonthData with a numeric maxBudget and an items sequence.
StoreShape ==
  /\ store.t = "obj"
  /\ store.months.t = "map"
  /\ \A k \in Months(store) :
       /\ store.months.m[k].t = "md"
       /\ store.months.m[k].maxBudget \notin {NaN, Null}
       /\ DOMAIN store.months.m[k].items = 1..Len(store.months.m[k].items)

\* The active month's items that have id `id`.
HasItem(id) == HasActive /\ \E i \in DOMAIN ActiveItems : ActiveItems[i].id = id

\* C4: addItem, removeItem, updateItem and setBudget raise no fault in any
\* reachable state; removeItem and updateItem of an id no item has, and any of
\* the four with the active month absent, leave the Store content unchanged.
\* Stated of the states whose Store is well-shaped (StoreShape), the import of
\* a well-formed document without the active month among them.
MissingEntityBenign ==
  [][(StoreShape /\ (AddItem \/ RemoveItem \/ ConfirmEdit \/ UpdateBudget)) =>
       /\ faultIn' = "none"
       /\ (activeMonth \notin Months(store)) => store' = store
       /\ \A id \in Ids :
            (~HasItem(id)
               /\ (removeItem(id, TRUE)
                     \/ \E n \in EditNames, p \in EditPrices :
                          confirmEdit(id, n, p)))
              => store' = store]_vars

\* C5: a file read that ended, ended in one import applied or one error
\* surfaced (an alert either way), and the file input has been reset.
FileReadOutcome ==
  reader \in {"done", "error"}
    => (alertMsg \in {"ok", "fail"} /\ fileValue = "")

\* C6: between two events the document under the storage key is the
\* serialization of the in-memory Store.
PersistedIsStore == localStorage[STORAGE_KEY] = JSONstringify(store)

\* C7: addItem with a name empty after trimming, or a price that is not a
\* finite number greater than 0, leaves the Store unchanged; otherwise it
\* appends one item with the trimmed name and the parsed price to the active
\* month, the items before it and the other months as they were.
AddItemValidation ==
  [][\A newName \in RawNames, newPrice \in RawNumbers :
       (/\ faultIn = "none"
        /\ FreeIds(store) # {}
        /\ HasRoom(store, activeMonth)
        /\ addItem(newName, newPrice))
         => IF \/ Trim(newName) = <<>>
               \/ ~IsFinite(Number(newPrice))
               \/ Number(newPrice) <= 0
            THEN store' = store
            ELSE /\ HasActive
                 /\ MonthOf(store', activeMonth).t = "md"
                 /\ Months(store') = Months(store)
                 /\ \A k \in Months(store) \ {activeMonth} :
                      MonthOf(store', k) = MonthOf(store, k)
                 /\ MonthOf(store', activeMonth).maxBudget = ActiveBudget
                 /\ LET new == MonthOf(store', activeMonth).items
                    IN /\ Len(new) = Len(ActiveItems) + 1
                       /\ SubSeq(new, 1, Len(ActiveItems)) = ActiveItems
                       /\ new[Len(new)].name = Trim(newName)
                       /\ new[Len(new)].price = Number(newPrice)]_vars

\* C9: every month's maxBudget is a number greater than or equal to 0.
BudgetNonNegative ==
  \A k \in Months(store) :
    store.months.m[k].t = "md"
      => (store.months.m[k].maxBudget \notin {NaN, Null}
            /\ store.months.m[k].maxBudget >= 0)

\* C10: with maxBudget > 0 and prices > 0 the flags are a run of false then a
\* run of true; the first flagged item is the first whose cumulative sum is
\* strictly greater than maxBudget; an item whose cumulative sum is exactly
\* maxBudget is not flagged; and some item is flagged exactly when the total
\* is strictly greater than maxBudget, which is the verdict of `exceeding`.
PositiveCeilingAttribution ==
  (/\ view.status = "ok"
   /\ HasActive
   /\ ActiveBudget > 0
   /\ \A i \in DOMAIN ActiveItems : ActiveItems[i].price > 0)
    => LET flags == view.overBudgetMap
           n == Len(ActiveItems)
           Over == {i \in 1..n : PriceSum(ActiveItems, i) > ActiveBudget}
           Flagged == {i \in 1..n : flags[i]}
       IN /\ DOMAIN flags = 1..n
          /\ \A i \in 1..n : \A j \in i..n : flags[i] => flags[j]
          /\ Flagged # {}
               => /\ Over # {}
                  /\ \A i \in Flagged : \E j \in Over : j <= i
                  /\ \A j \in Over : \E i \in Flagged : i <= j
          /\ \A i \in 1..n :
               PriceSum(ActiveItems, i) = ActiveBudget => ~flags[i]
          /\ (Flagged # {}) <=> (PriceSum(ActiveItems, n) > ActiveBudget)
          /\ view.exceeding <=> (Flagged # {})

\* C10 witness: rendered with a positive ceiling, an item lands exactly on
\* the ceiling unflagged and the item after it is flagged.
LandsOnCeilingThenOver ==
  /\ view.status = "ok"
  /\ HasActive
  /\ ActiveBudget > 0
  /\ \E i \in 1..(Len(ActiveItems) - 1) :
       /\ PriceSum(ActiveItems, i) = ActiveBudget
       /\ ~view.overBudgetMap[i]
       /\ view.overBudgetMap[i + 1]

====
